---- MODULE Spec2Model ----
(***************************************************************************)
(* State-machine model of the chatbot backend:                             *)
(*   netlify/functions/chatbot.js   in-memory RAG handler (Spec, SpecSeq,  *)
(*                                  SpecTopK)                              *)
(*   unnamed/part_000               local-embedding RAG handler (SpecRag)  *)
(*   netlify/functions/firestore.js the two saveHistory variants (SpecFire)*)
(*                                                                         *)
(* JavaScript runs one callback at a time, so an action is the code that   *)
(* runs between two awaits of one request: it starts where an awaited      *)
(* promise settles and ends at the next await (or at the return).  The     *)
(* fetch of an API call and the read of its body (res.json / res.text)     *)
(* touch no shared state between them and are one await point here.        *)
(* Texts are sequences of one-character strings.                           *)
(***************************************************************************)
EXTENDS Integers, Sequences, FiniteSets, TLC

\* ------------------------------------------------------------- bounds
\* requests that can be in flight at once in one warm process
NSlots == 2
\* requests started over a run of Spec
MaxRequests == 2
\* requests started over a run of SpecSeq (more than MAX_TURNS / 2)
MaxSeqRequests == 22
\* requests started over a run of SpecSessions
MaxSessionRequests == 3

\* ---------------------------------------------------------- variables
\* netlify/functions/chatbot.js
VARIABLES
  corpus,   \* the documents directory: [exists, files]
  apiKey,   \* whether GEMINI_API_KEY is set in the environment
  store,    \* the module-level store: [ingested, vectors, history]
  req,      \* per in-flight request: its position and its local variables
  returned, \* history: the request that returned in the last step, if any
  log,      \* history: per session, every turn ever appended, in order
  started   \* history: the number of requests started

chatVars == <<corpus, apiKey, store, req, returned, log, started>>

\* unnamed/part_000
VARIABLES
  ragStore,     \* vectorStore: null, or the embedded chunks
  ragInstance,  \* EmbeddingPipelineSingleton.instance is not null
  ragLoads,     \* history: the number of calls of pipeline()
  rag,          \* per in-flight request: its position and its locals
  ragReturned,  \* history: the request that returned in the last step, if any
  ragStarted    \* history: the number of requests started

ragVars == <<ragStore, ragInstance, ragLoads, rag, ragReturned, ragStarted>>

\* netlify/functions/firestore.js
VARIABLES
  fireVariant,  \* which saveHistory of firestore.js is deployed
  fireDocs,     \* chat_history: per session, the document and its version
  fireClock,    \* the server's clock
  fire,         \* per call of saveHistory: its position and its locals
  fireLog,      \* history: per session, the user messages of the calls that resolved
  fireStarted   \* history: the number of calls started

fireVars == <<fireVariant, fireDocs, fireClock, fire, fireLog, fireStarted>>

\* chunkText (chatbot.js) called on its own
VARIABLES
  chunkArgs,    \* the arguments of the call: text, size, overlap
  chunkCalled,  \* whether the call has returned
  chunkOut      \* what the call returned

chunkVars == <<chunkArgs, chunkCalled, chunkOut>>

vars == <<chatVars, ragVars, fireVars, chunkVars>>

\* -------------------------------------------------- program constants
MAX_TURNS == 40
HISTORY_WINDOW == 10
TOP_K == 5
CHUNK_SIZE == 1000
CHUNK_OVERLAP == 200

\* ------------------------------------------------------------ helpers
Min(a, b) == IF a < b THEN a ELSE b
Max(a, b) == IF a > b THEN a ELSE b

\* \s of the regular expressions and of String.prototype.trim: space, tab,
\* line feed, carriage return, form feed, vertical tab (U+000B), no-break
\* space (U+00A0), and the Unicode spaces and separators, which a string of
\* the model cannot hold and which are named by their code points.
WhiteSpace ==
  {" ", "\t", "\n", "\r", "\f", "", " ",
   "U+1680", "U+2000", "U+2001", "U+2002", "U+2003", "U+2004", "U+2005",
   "U+2006", "U+2007", "U+2008", "U+2009", "U+200A", "U+2028", "U+2029",
   "U+202F", "U+205F", "U+3000", "U+FEFF"}

IsSpace(c) == c \in WhiteSpace

RECURSIVE TrimLeft(_)
TrimLeft(s) ==
  IF s # <<>> /\ IsSpace(Head(s)) THEN TrimLeft(Tail(s)) ELSE s

RECURSIVE TrimRight(_)
TrimRight(s) ==
  IF s # <<>> /\ IsSpace(s[Len(s)]) THEN TrimRight(SubSeq(s, 1, Len(s) - 1)) ELSE s

\* String.prototype.trim
Trim(s) == TrimRight(TrimLeft(s))

\* t.replace(/\s+/g, ' '): every run of whitespace becomes one space
RECURSIVE CollapseSpaces(_)
CollapseSpaces(s) ==
  IF s = <<>> THEN <<>>
  ELSE IF IsSpace(Head(s))
       THEN <<" ">> \o CollapseSpaces(TrimLeft(s))
       ELSE <<Head(s)>> \o CollapseSpaces(Tail(s))

\* Array.prototype.slice(-n): the last n elements (all of them when shorter)
SliceLast(s, n) == SubSeq(s, Max(1, Len(s) - n + 1), Len(s))

\* Array.prototype.slice(0, n)
SliceFirst(s, n) == SubSeq(s, 1, Min(n, Len(s)))

\* ---------------------------------------------------------- chunkText
RECURSIVE RawChunks(_, _, _, _)
\* the while loop of chunkText, i counted from 0 as in the source
RawChunks(text, size, overlap, i) ==
  IF i < Len(text)
  THEN <<SubSeq(text, i + 1, Min(i + size, Len(text)))>>
         \o RawChunks(text, size, overlap, i + size - overlap)
  ELSE <<>>

NormalizeChunk(t) == Trim(CollapseSpaces(t))

chunkText(text, size, overlap) ==
  LET raw == RawChunks(text, size, overlap, 0)
      norm == [j \in 1..Len(raw) |-> NormalizeChunk(raw[j])]
  IN  SelectSeq(norm, LAMBDA t : t # <<>>)

\* No call of chunkText on its own: the arguments are those of line 94.
InitChunk ==
  /\ chunkArgs = [text |-> <<>>, size |-> CHUNK_SIZE, overlap |-> CHUNK_OVERLAP]
  /\ chunkCalled = FALSE
  /\ chunkOut = <<>>

\* ------------------------------------------------------------- cosine
\* Embedding vectors are sequences of integers.
RECURSIVE SumTo(_, _)
SumTo(f, n) == IF n = 0 THEN 0 ELSE f[n] + SumTo(f, n - 1)

Dot(a, b) ==
  LET n == Min(Len(a), Len(b)) IN SumTo([i \in 1..n |-> a[i] * b[i]], n)

\* cosine(a, b) is dot / (sqrt(na) * sqrt(nb)), or 0 when a norm is 0.  The
\* model keeps the exact value as sq / den = sign(dot) * dot^2 / (na * nb),
\* the real score being sign(sq) * sqrt(|sq| / den): the two are ordered alike.
cosine(a, b) ==
  LET dot == Dot(a, b)
      na == Dot(a, SubSeq(a, 1, Min(Len(a), Len(b))))
      nb == Dot(b, SubSeq(b, 1, Min(Len(a), Len(b))))
  IN  IF na # 0 /\ nb # 0
      THEN [sq |-> (IF dot < 0 THEN -1 ELSE 1) * dot * dot, den |-> na * nb]
      ELSE [sq |-> 0, den |-> 1]

\* x < y on scores
ScoreLess(x, y) == x.sq * y.den < y.sq * x.den

\* position at which the comparator (a, b) => b.score - a.score puts x into
\* the sorted prefix: after every element whose score is not smaller
RECURSIVE InsertByScore(_, _)
InsertByScore(sorted, x) ==
  IF sorted = <<>> THEN <<x>>
  ELSE IF ScoreLess(Head(sorted).score, x.score)
       THEN <<x>> \o sorted
       ELSE <<Head(sorted)>> \o InsertByScore(Tail(sorted), x)

\* scored.sort((a, b) => b.score - a.score): Array.prototype.sort is stable
RECURSIVE SortByScoreDesc(_)
SortByScoreDesc(s) ==
  IF s = <<>> THEN <<>>
  ELSE InsertByScore(SortByScoreDesc(SubSeq(s, 1, Len(s) - 1)), s[Len(s)])

\* retrieveTopK without its sort: the first k records in stored order
ScoreAndSliceUnsorted(vectors, q, k) ==
  SliceFirst([i \in 1..Len(vectors) |->
                [embedding |-> vectors[i].embedding, text |-> vectors[i].text,
                 source |-> vectors[i].source,
                 score |-> cosine(q, vectors[i].embedding)]], k)

\* lines 108-110 of retrieveTopK: score every stored vector, sort, slice
ScoreAndSlice(vectors, q, k) ==
  LET scored == [i \in 1..Len(vectors) |->
                   [embedding |-> vectors[i].embedding, text |-> vectors[i].text,
                    source |-> vectors[i].source,
                    score |-> cosine(q, vectors[i].embedding)]]
  IN  SliceFirst(SortByScoreDesc(scored), k)

\* =====================================================================
\* netlify/functions/chatbot.js
\* =====================================================================
Slots == 1..NSlots
Sessions == {"s1", "s2"}
\* a sessionId or a message that is missing from the body (or empty) is falsy
NoSession == ""
NoText == <<>>

Digit == <<"0", "1", "2", "3", "4", "5", "6", "7", "8", "9">>
\* the text of the n-th numbered message
NumText(n) == <<"m", Digit[((n \div 10) % 10) + 1], Digit[(n % 10) + 1]>>

File(name, ext, text, fault) ==
  [name |-> name, ext |-> ext, text |-> text, fault |-> fault]

\* The document directories the model is run on.  fault "read" makes
\* readFileSync throw on the file, fault "parse" makes pdfParse reject.
Corpora ==
  { [exists |-> FALSE, files |-> <<>>],
    [exists |-> TRUE, files |-> <<>>],
    [exists |-> TRUE, files |-> <<File("a", "txt", <<"a", "\r", "\n", "b">>, "none")>>],
    [exists |-> TRUE,
     files |-> <<File("n", "md", <<"z">>, "none"), File("e", "txt", <<>>, "none"),
                 File("w", "txt", <<" ">>, "none"), File("a", "txt", <<"a">>, "none"),
                 File("p", "pdf", <<" ", "p", " ">>, "none")>>],
    [exists |-> TRUE,
     files |-> <<File("a", "txt", <<"a">>, "none"), File("q", "pdf", <<"q">>, "parse")>>],
    [exists |-> TRUE,
     files |-> <<File("a", "txt", <<"a">>, "none"), File("x", "txt", <<"x">>, "read")>>] }

\* line 80: readdirSync(DOCS_DIR).filter(f => /\.(pdf|txt)$/i.test(f))
SupportedFiles(c) == SelectSeq(c.files, LAMBDA f : f.ext \in {"pdf", "txt"})

\* ------------------------------------------------ responses and errors
Response(status, body, reply) ==
  [statusCode |-> status, body |-> body, reply |-> reply]

NoResponse == Response(0, "", NoText)
MethodNotAllowed == Response(405, "Method Not Allowed", NoText)
MissingKey == Response(500, "Missing GEMINI_API_KEY", NoText)
MissingFields == Response(400, "Missing message or sessionId", NoText)
\* line 170
ReplyResponse(reply) == Response(200, "reply", reply)
\* a catch block that answers with the error it caught
CatchResponseLeaky(err) == Response(500, err, NoText)

\* lines 171-174: the catch block of the handler; err goes to console.error
CatchResponse(err) == Response(500, "Failed to process request.", NoText)

ErrJson == "SyntaxError: Unexpected token in JSON"
ErrRead == "ENOENT: no such file or directory"
ErrPdf == "pdf-parse: invalid PDF structure"
ErrEmbedStatus == "Embeddings API error 500: upstream body"
ErrEmbedEmpty == "Empty embedding vector"
ErrGenerate == "Gemini generate error 503: upstream body"

\* ---------------------------------------------------- external services
\* What the embedding API answers: a non-success status, or a success whose
\* embedding.values is one of vecs or is empty.
EmbedAnswers(vecs) ==
  {[ok |-> FALSE, values |-> <<>>]} \cup {[ok |-> TRUE, values |-> v] : v \in vecs \cup {<<>>}}

\* lines 51-58 of embedRaw: the error it throws, "" when it returns values
EmbedError(ans) ==
  IF ~ans.ok THEN ErrEmbedStatus
  ELSE IF Len(ans.values) = 0 THEN ErrEmbedEmpty
  ELSE ""

\* What the generation API answers: a non-success status, or a success
\* whose first candidate holds one of the given lists of text parts.
GenAnswers(partsSet) ==
  {[ok |-> FALSE, parts |-> <<>>]} \cup {[ok |-> TRUE, parts |-> p] : p \in partsSet}

RECURSIVE JoinParts(_)
JoinParts(parts) ==
  IF parts = <<>> THEN <<>> ELSE Head(parts) \o JoinParts(Tail(parts))

NoReply == <<"N", "o", " ", "r", "e", "p", "l", "y", ".">>

\* lines 139-142: parts.map(p => p.text || '').join('').trim() || 'No reply.'
ExtractReply(parts) ==
  LET t == Trim(JoinParts(parts)) IN IF t = <<>> THEN NoReply ELSE t

\* ------------------------------------------------------ request slots
IdleSlot ==
  [pc |-> "idle", method |-> "", body |-> [kind |-> "absent"],
   message |-> NoText, sessionId |-> NoSession,
   caller |-> "", file |-> 0, chunks |-> <<>>, chunk |-> 0,
   q |-> <<>>, top |-> <<>>, seen |-> <<>>, turns |-> <<>>,
   prompt |-> [context |-> <<>>, history |-> <<>>, user |-> NoText],
   resp |-> NoResponse, err |-> "", calls |-> 0]

JsonBody(message, sessionId) ==
  [kind |-> "json", message |-> message, sessionId |-> sessionId]

\* line 162: JSON.parse(event.body || '{}'), destructured
BodyMessage(body) == IF body.kind = "json" THEN body.message ELSE NoText
BodySession(body) == IF body.kind = "json" THEN body.sessionId ELSE NoSession

\* The handler returns resp.  Of the request's locals the model keeps the
\* input, the turns it read, the error it logged and the call count.
Finish(s, resp) ==
  [IdleSlot EXCEPT !.pc = "done", !.method = s.method, !.body = s.body,
                   !.message = s.message, !.sessionId = s.sessionId,
                   !.turns = s.turns, !.err = s.err, !.calls = s.calls,
                   !.resp = resp]

\* the catch block: the error is logged and answered
Caught(s, err) == Finish([s EXCEPT !.err = err], CatchResponse(err))

\* Request r goes on as rec; when rec has returned, its slot is free again.
Settle(r, rec) ==
  /\ req' = [req EXCEPT ![r] = IF rec.pc = "done" THEN IdleSlot ELSE rec]
  /\ returned' = IF rec.pc = "done" THEN rec ELSE IdleSlot

\* ------------------------------------------------------- ensureIngested
\* The synchronous run of the for loop of ensureIngested from the start of
\* file i: it ends at the next await (embedRaw of the first chunk of a file,
\* pdfParse of a file), at the end of the loop, or in a throw.  reads counts
\* the readFileSync calls made on the way.
RECURSIVE IngestScan(_, _)
IngestChunks(files, i, text, reads) ==
  LET chunks == chunkText(text, CHUNK_SIZE, CHUNK_OVERLAP)
      next == IngestScan(files, i + 1)
  IN  IF text = <<>> \/ chunks = <<>>
      THEN [next EXCEPT !.reads = @ + reads]
      ELSE [kind |-> "embed", file |-> i, chunks |-> chunks, reads |-> reads]

IngestScan(files, i) ==
  IF i > Len(files) THEN [kind |-> "done", file |-> i, chunks |-> <<>>, reads |-> 0]
  ELSE IF files[i].fault = "read"
       THEN [kind |-> "throw", file |-> i, chunks |-> <<>>, reads |-> 1]
  ELSE IF files[i].ext = "pdf"
       THEN [kind |-> "pdf", file |-> i, chunks |-> <<>>, reads |-> 1]
  ELSE IngestChunks(files, i, files[i].text, 1)

\* ensureIngested() without its guard: every call starts a pass
IngestGuardNever == FALSE

\* line 73: if (store.ingested) return
IngestGuard == store.ingested

\* lines 73-80: where a call of ensureIngested() stops first
IngestCall ==
  IF IngestGuard THEN [kind |-> "skip", file |-> 0, chunks |-> <<>>, reads |-> 0]
  ELSE IF ~corpus.exists THEN [kind |-> "done", file |-> 0, chunks |-> <<>>, reads |-> 0]
  ELSE IngestScan(SupportedFiles(corpus), 1)

\* the flag set as soon as a pass has started
IngestedAfterEarly(stop) == TRUE

\* line 76 and line 101: store.ingested = true
IngestedAfter(stop) == store.ingested \/ stop.kind = "done"

\* The request after ensureIngested() stopped at stop: awaiting the embedding
\* of a chunk or the parse of a PDF, back in its caller, or in the catch.
SlotAfterIngest(s, stop) ==
  CASE stop.kind = "embed" ->
         [s EXCEPT !.pc = "embedDoc", !.file = stop.file, !.chunks = stop.chunks,
                   !.chunk = 1, !.calls = @ + stop.reads + 1]
    [] stop.kind = "pdf" ->
         [s EXCEPT !.pc = "pdfParse", !.file = stop.file, !.calls = @ + stop.reads + 1]
    [] stop.kind = "throw" ->
         Caught([s EXCEPT !.calls = @ + stop.reads], ErrRead)
    [] OTHER ->
         [s EXCEPT !.pc = "ingested", !.calls = @ + stop.reads]

\* ------------------------------------------------------------- inputs
\* mode "free": any client, any answer of the services, over small sets.
\* mode "script": one client that numbers its messages per session, and a
\* generation API that echoes the message; used for long runs.
\* mode "topk": as "free", with more embedding vectors.
\* mode "sessions": as "free", with well-formed requests only; used for
\* longer interleavings of the sessions.
\* what the client of each session sends
Messages == [s \in Sessions |-> IF s = "s1" THEN <<"h", "i">> ELSE <<"y", "o">>]

Event(method, body) == [method |-> method, body |-> body]

Events(mode) ==
  IF mode = "script"
  THEN {Event("POST", JsonBody(NumText((Len(log[s]) \div 2) + 1), s)) : s \in Sessions}
         \cup {Event("POST", JsonBody(NoText, "s1"))}
  ELSE IF mode = "sessions"
  THEN {Event("POST", JsonBody(Messages[s], s)) : s \in Sessions}
  ELSE {Event("GET", [kind |-> "absent"]), Event("POST", [kind |-> "absent"]),
        Event("POST", [kind |-> "malformed"])}
         \cup {Event("POST", JsonBody(Messages[s], s)) : s \in Sessions}
         \cup {Event("POST", JsonBody(NoText, "s1")),
               Event("POST", JsonBody(<<"h", "i">>, NoSession))}

EmbedVecs(mode) ==
  CASE mode = "script" -> {<<1, 0>>}
    [] mode = "topk" -> {<<1, 0>>, <<1, 1>>, <<-1, 0>>, <<0, 0>>}
    [] OTHER -> {<<1, 0>>}

GenParts(mode, message) ==
  IF mode = "script" THEN {<<message>>}
  ELSE {<<>>, <<<<" ", "o">>, <<"k", " ">>>>}

RequestBudget(mode) ==
  CASE mode = "script" -> MaxSeqRequests
    [] mode = "sessions" -> MaxSessionRequests
    [] OTHER -> MaxRequests

\* ------------------------------------------------------------ handler

\* line 163: if (!message || !sessionId)
MissingInput(message, sessionId) == message = NoText \/ sessionId = NoSession

\* lines 153-167: the handler from its call to its first await
HandlerStart(ev) ==
  LET s0 == [IdleSlot EXCEPT !.method = ev.method, !.body = ev.body]
      s1 == [s0 EXCEPT !.message = BodyMessage(ev.body),
                       !.sessionId = BodySession(ev.body)]
  IN  IF ev.method # "POST" THEN Finish(s0, MethodNotAllowed)
      ELSE IF ~apiKey THEN Finish(s0, MissingKey)
      ELSE IF ev.body.kind = "malformed" THEN Caught(s0, ErrJson)
      ELSE IF MissingInput(s1.message, s1.sessionId) THEN Finish(s1, MissingFields)
      ELSE SlotAfterIngest([s1 EXCEPT !.caller = "handler"], IngestCall)

\* whether HandlerStart reaches the call of ensureIngested() on line 167
ReachesIngest(ev) ==
  /\ ev.method = "POST" /\ apiKey /\ ev.body.kind # "malformed"
  /\ ~MissingInput(BodyMessage(ev.body), BodySession(ev.body))

\* A request arrives and the handler runs to its first await or return.
\* The slots only name the requests in flight: a new request takes the
\* lowest slot that holds none.
LowestFree(slots, r) ==
  /\ slots[r].pc = "idle"
  /\ \A r2 \in DOMAIN slots : r2 < r => slots[r2].pc # "idle"

Invoke(r, mode) ==
  /\ LowestFree(req, r)
  /\ started < RequestBudget(mode)
  /\ \E ev \in Events(mode) :
       /\ Settle(r, HandlerStart(ev))
       /\ store' = [store EXCEPT !.ingested =
                      IF ReachesIngest(ev) THEN IngestedAfter(IngestCall) ELSE @]
  /\ started' = started + 1
  /\ UNCHANGED <<corpus, apiKey, log, ragVars, fireVars, chunkVars>>

\* lines 87-99: pdfParse settles; the loop goes on to the next await
PdfParsed(r) ==
  /\ req[r].pc = "pdfParse"
  /\ LET files == SupportedFiles(corpus)
         f == files[req[r].file]
         stop == IngestChunks(files, req[r].file, Trim(f.text), 0)
     IN  IF f.fault = "parse"
         THEN /\ Settle(r, Caught(req[r], ErrPdf))
              /\ UNCHANGED store
         ELSE /\ Settle(r, SlotAfterIngest(req[r], stop))
              /\ store' = [store EXCEPT !.ingested = IngestedAfter(stop)]
  /\ UNCHANGED <<corpus, apiKey, log, started, ragVars, fireVars, chunkVars>>

\* line 97: store.vectors.push({ embedding, text: chunk, source: file })
PushVector(vectors, rec) == Append(vectors, rec)

\* lines 95-101: embedRaw of a chunk settles; the chunk is pushed and the
\* loops go on to the next await
DocEmbedded(r, mode) ==
  /\ req[r].pc = "embedDoc"
  /\ \E ans \in EmbedAnswers(EmbedVecs(mode)) :
       LET files == SupportedFiles(corpus)
           s == req[r]
           rec == [embedding |-> ans.values, text |-> s.chunks[s.chunk],
                   source |-> files[s.file].name]
           stop == IngestScan(files, s.file + 1)
       IN  IF EmbedError(ans) # ""
           THEN /\ Settle(r, Caught(s, EmbedError(ans)))
                /\ UNCHANGED store
           ELSE IF s.chunk < Len(s.chunks)
           THEN /\ Settle(r, [s EXCEPT !.chunk = @ + 1, !.calls = @ + 1])
                /\ store' = [store EXCEPT !.vectors = PushVector(@, rec)]
           ELSE /\ Settle(r, SlotAfterIngest(s, stop))
                /\ store' = [store EXCEPT !.vectors = PushVector(@, rec),
                                          !.ingested = IngestedAfter(stop)]
  /\ UNCHANGED <<corpus, apiKey, log, started, ragVars, fireVars, chunkVars>>

\* lines 106-107 of retrieveTopK: an empty store returns [] at once,
\* otherwise the query is sent to the embedding API
RetrieveBody(s) ==
  IF Len(store.vectors) = 0
  THEN [s EXCEPT !.pc = "retrieved", !.top = <<>>, !.seen = <<>>]
  ELSE [s EXCEPT !.pc = "embedQuery", !.calls = @ + 1]

\* ensureIngested() has returned to its caller.  From the handler (line 168)
\* generateWithContext calls retrieveTopK, whose line 105 calls
\* ensureIngested() again when the store is not ingested; from retrieveTopK
\* the run goes on at line 106.
IngestReturned(r) ==
  /\ req[r].pc = "ingested"
  /\ LET s == req[r]
         again == s.caller = "handler" /\ ~store.ingested
     IN  /\ Settle(r, IF again
                      THEN SlotAfterIngest([s EXCEPT !.caller = "retrieveTopK"], IngestCall)
                      ELSE RetrieveBody([s EXCEPT !.caller = "retrieveTopK"]))
         /\ store' = [store EXCEPT !.ingested =
                        IF again THEN IngestedAfter(IngestCall) ELSE @]
  /\ UNCHANGED <<corpus, apiKey, log, started, ragVars, fireVars, chunkVars>>

\* lines 107-110: embedRaw of the query settles; score, sort, slice
QueryEmbedded(r, mode) ==
  /\ req[r].pc = "embedQuery"
  /\ \E ans \in EmbedAnswers(EmbedVecs(mode)) :
       Settle(r, IF EmbedError(ans) # "" THEN Caught(req[r], EmbedError(ans))
                 ELSE [req[r] EXCEPT !.pc = "retrieved", !.seen = store.vectors,
                                     !.q = ans.values,
                                     !.top = ScoreAndSlice(store.vectors, ans.values, TOP_K)])
  /\ UNCHANGED <<corpus, apiKey, store, log, started, ragVars, fireVars, chunkVars>>

\* line 115 and the CONTEXT section of line 123
ContextSection(top) ==
  [placeholder |-> IF top = <<>> THEN "(no context)" ELSE "",
   items |-> [i \in 1..Len(top) |-> [source |-> top[i].source, text |-> top[i].text]]]

\* the window taken to be the stored cap
HistorySectionCapped(turns) ==
  LET recent == SliceLast(turns, MAX_TURNS)
  IN  [placeholder |-> IF recent = <<>> THEN "(none)" ELSE "",
       items |-> [i \in 1..Len(recent) |->
                    [speaker |-> IF recent[i].role = "user" THEN "User" ELSE "Bot",
                     text |-> recent[i].text]]]

\* lines 118-121 and the HISTORY section of line 123
HistorySection(turns) ==
  LET recent == SliceLast(turns, HISTORY_WINDOW)
  IN  [placeholder |-> IF recent = <<>> THEN "(none)" ELSE "",
       items |-> [i \in 1..Len(recent) |->
                    [speaker |-> IF recent[i].role = "user" THEN "User" ELSE "Bot",
                     text |-> recent[i].text]]]

\* the turns of every session, as if the history were not keyed
SessionTurnsShared(history, sessionId) == history["s1"] \o history["s2"]

\* line 117: store.history.get(sessionId) || []
SessionTurns(history, sessionId) == history[sessionId]

\* lines 115-131: retrieveTopK has returned; the session's turns are read,
\* the prompt is built and sent to the generation API
Retrieved(r) ==
  /\ req[r].pc = "retrieved"
  /\ LET s == req[r]
         turns == SessionTurns(store.history, s.sessionId)
     IN  Settle(r, [s EXCEPT !.pc = "generate", !.turns = turns, !.calls = @ + 1,
                             !.top = <<>>, !.seen = <<>>, !.q = <<>>,
                             !.prompt = [context |-> ContextSection(s.top),
                                         history |-> HistorySection(turns),
                                         user |-> s.message]])
  /\ UNCHANGED <<corpus, apiKey, store, log, started, ragVars, fireVars, chunkVars>>

Turn(role, text) == [role |-> role, text |-> text]

\* line 145
UpdatedTurns(turns, message, reply) ==
  turns \o <<Turn("user", message), Turn("bot", reply)>>

\* the cap applied from the wrong end: the oldest turns are kept
BoundedTurnsOldest(updated) == SliceFirst(updated, MAX_TURNS)

\* a cap that is one turn short
BoundedTurnsOddCap(updated) == SliceLast(updated, MAX_TURNS - 1)

\* line 147: updated.slice(-MAX_TURNS)
BoundedTurns(updated) == SliceLast(updated, MAX_TURNS)

\* the user turn stored as soon as the answer arrives, whatever its status
HistoryAfterGenerateEager(history, s, ok, reply) ==
  IF ok
  THEN [history EXCEPT ![s.sessionId] =
          BoundedTurns(UpdatedTurns(s.turns, s.message, reply))]
  ELSE [history EXCEPT ![s.sessionId] =
          BoundedTurns(s.turns \o <<Turn("user", s.message)>>)]

\* lines 133-147: the history once the generation API has answered; the
\* throw of line 135 comes before the set of line 147
HistoryAfterGenerate(history, s, ok, reply) ==
  IF ok
  THEN [history EXCEPT ![s.sessionId] =
          BoundedTurns(UpdatedTurns(s.turns, s.message, reply))]
  ELSE history

\* lines 133-149 and 170: the generation API answers; the reply is
\* extracted, the history is written and the handler returns
Generated(r, mode) ==
  /\ req[r].pc = "generate"
  /\ \E ans \in GenAnswers(GenParts(mode, req[r].message)) :
       LET s == req[r]
           reply == ExtractReply(ans.parts)
       IN  /\ store' = [store EXCEPT !.history =
                          HistoryAfterGenerate(@, s, ans.ok, reply)]
           /\ IF ~ans.ok
              THEN /\ Settle(r, Caught(s, ErrGenerate))
                   /\ UNCHANGED log
              ELSE /\ Settle(r, Finish(s, ReplyResponse(reply)))
                   /\ log' = [log EXCEPT ![s.sessionId] =
                                @ \o <<Turn("user", s.message), Turn("bot", reply)>>]
  /\ UNCHANGED <<corpus, apiKey, started, ragVars, fireVars, chunkVars>>

\* =====================================================================
\* unnamed/part_000: the handler that embeds with a local model
\* =====================================================================
\* requests started over a run of SpecRag
MaxRagRequests == 2
RAG_TOP_K == 3

NullStore == [set |-> FALSE, items |-> <<>>]

RagMissingKey == Response(500, "API key is not configured.", NoText)
\* lines 150-156: the catch block; the error goes to console.error
RagCatchResponse(err) == Response(500, "Failed to process the request.", NoText)

ErrReaddir == "ENOENT: no such file or directory, scandir"
ErrPipeline == "pipeline: could not load the model"
ErrExtractor == "extractor: invalid input"
ErrRagGenerate == "Gemini API returned an error: 503"

RagFallback ==
  <<"I", " ", "c", "o", "u", "l", "d", "n", "'", "t", " ",
    "g", "e", "n", "e", "r", "a", "t", "e", " ", "a", " ",
    "r", "e", "s", "p", "o", "n", "s", "e", ".">>

RagIdle ==
  [pc |-> "idle", method |-> "", body |-> [kind |-> "absent"], message |-> NoText,
   phase |-> "", file |-> 0, docs |-> <<>>, chunks |-> <<>>, context |-> <<>>,
   resp |-> NoResponse, err |-> "", calls |-> 0]

RagFinish(s, resp) ==
  [RagIdle EXCEPT !.pc = "done", !.method = s.method, !.body = s.body,
                  !.message = s.message, !.err = s.err, !.calls = s.calls,
                  !.resp = resp]

RagCaught(s, err) == RagFinish([s EXCEPT !.err = err], RagCatchResponse(err))

\* Request r goes on as rec; when rec has returned, its slot is free again.
RagSettle(r, rec) ==
  /\ rag' = [rag EXCEPT ![r] = IF rec.pc = "done" THEN RagIdle ELSE rec]
  /\ ragReturned' = IF rec.pc = "done" THEN rec ELSE RagIdle

RagEvents ==
  {Event("GET", [kind |-> "absent"]), Event("POST", [kind |-> "absent"]),
   Event("POST", [kind |-> "malformed"]),
   Event("POST", JsonBody(<<"h", "i">>, NoSession)),
   Event("POST", JsonBody(NoText, NoSession))}

\* what the extractor (the local model) can return for one text
RagVecs == {<<1, 0>>, <<0, 1>>}

RECURSIVE VecSeqs(_)
\* the sequences of n vectors of RagVecs
VecSeqs(n) ==
  IF n = 0 THEN {<<>>}
  ELSE {Append(vs, v) : vs \in VecSeqs(n - 1), v \in RagVecs}

\* the extractor throws, or returns one vector for each of its n texts
ExtractorAnswers(n) ==
  {[ok |-> FALSE, vectors |-> <<>>]} \cup {[ok |-> TRUE, vectors |-> vs] : vs \in VecSeqs(n)}

RECURSIVE JoinDocs(_)
\* documents.join('\n\n')
JoinDocs(docs) ==
  IF docs = <<>> THEN <<>>
  ELSE IF Len(docs) = 1 THEN docs[1]
  ELSE docs[1] \o <<"\n", "\n">> \o JoinDocs(Tail(docs))

\* lines 65-69: RecursiveCharacterTextSplitter({ chunkSize: 500 }).splitText on
\* a text shorter than the chunk size: the trimmed text, or nothing when blank
RagSplitText(text) == IF Trim(text) = <<>> THEN <<>> ELSE <<Trim(text)>>

\* lines 50-62: the synchronous run of the for loop of initializeVectorStore
\* from file i, to the await of pdf(), to the end of the loop, or to a throw
RECURSIVE RagScan(_, _, _, _)
RagScan(files, i, docs, reads) ==
  IF i > Len(files)
  THEN [kind |-> "split", file |-> i, docs |-> docs, reads |-> reads]
  ELSE IF files[i].ext \in {"txt", "pdf"} /\ files[i].fault = "read"
       THEN [kind |-> "throw", file |-> i, docs |-> docs, reads |-> reads + 1]
  ELSE IF files[i].ext = "txt"
       THEN RagScan(files, i + 1, Append(docs, files[i].text), reads + 1)
  ELSE IF files[i].ext = "pdf"
       THEN [kind |-> "pdf", file |-> i, docs |-> docs, reads |-> reads + 1]
  ELSE RagScan(files, i + 1, Append(docs, <<>>), reads)

\* line 50: fs.readdirSync(docFolderPath) throws when the folder is absent
RagReaddir == IF corpus.exists THEN "" ELSE ErrReaddir

\* lines 43-62: where a call of initializeVectorStore() stops first
RagInitCall ==
  IF ragStore.set THEN [kind |-> "skip", file |-> 0, docs |-> <<>>, reads |-> 0]
  ELSE IF RagReaddir # "" THEN [kind |-> "nodir", file |-> 0, docs |-> <<>>, reads |-> 1]
  ELSE RagScan(corpus.files, 1, <<>>, 1)

RagAfterInit(s, stop) ==
  CASE stop.kind = "skip" -> [s EXCEPT !.pc = "ragReady"]
    [] stop.kind = "nodir" -> RagCaught([s EXCEPT !.calls = @ + stop.reads], ErrReaddir)
    [] stop.kind = "throw" -> RagCaught([s EXCEPT !.calls = @ + stop.reads], ErrRead)
    [] stop.kind = "pdf" ->
         [s EXCEPT !.pc = "ragPdf", !.file = stop.file, !.docs = stop.docs,
                   !.calls = @ + stop.reads + 1]
    [] OTHER ->
         [s EXCEPT !.pc = "ragSplit", !.docs = <<>>, !.calls = @ + stop.reads,
                   !.chunks = RagSplitText(JoinDocs(stop.docs))]

\* lines 95-105: the handler from its call to its first await
RagHandlerStart(ev) ==
  LET s0 == [RagIdle EXCEPT !.method = ev.method, !.body = ev.body]
  IN  IF ev.method # "POST" THEN RagFinish(s0, MethodNotAllowed)
      ELSE IF ~apiKey THEN RagFinish(s0, RagMissingKey)
      ELSE RagAfterInit([s0 EXCEPT !.phase = "init"], RagInitCall)

RagInvoke(r) ==
  /\ LowestFree(rag, r)
  /\ ragStarted < MaxRagRequests
  /\ \E ev \in RagEvents : RagSettle(r, RagHandlerStart(ev))
  /\ ragStarted' = ragStarted + 1
  /\ UNCHANGED <<ragStore, ragInstance, ragLoads, chatVars, fireVars, chunkVars>>

\* lines 58-62: pdf() settles; the loop goes on
RagPdfParsed(r) ==
  /\ rag[r].pc = "ragPdf"
  /\ LET s == rag[r]
         f == corpus.files[s.file]
         stop == RagScan(corpus.files, s.file + 1, Append(s.docs, f.text), 0)
     IN  RagSettle(r, IF f.fault = "parse" THEN RagCaught(s, ErrPdf)
                      ELSE RagAfterInit(s, stop))
  /\ UNCHANGED <<ragStore, ragInstance, ragLoads, ragStarted, chatVars, fireVars, chunkVars>>

\* line 31: if (this.instance === null)
InstanceMissing == ~ragInstance

\* lines 30-35: getInstance() up to its await of pipeline(), or its return
\* of the loaded instance and the call of the extractor that follows it
RagGetInstance(s) ==
  IF InstanceMissing THEN [s EXCEPT !.pc = "ragLoad", !.calls = @ + 1]
  ELSE [s EXCEPT !.pc = "ragEmbed", !.calls = @ + 1]

\* lines 69-72: splitText settles; getInstance() is called
RagSplitDone(r) ==
  /\ rag[r].pc = "ragSplit"
  /\ RagSettle(r, RagGetInstance(rag[r]))
  /\ ragLoads' = IF InstanceMissing THEN ragLoads + 1 ELSE ragLoads
  /\ UNCHANGED <<ragStore, ragInstance, ragStarted, chatVars, fireVars, chunkVars>>

\* lines 32-34: pipeline() settles; the instance is stored and returned, and
\* the caller calls the extractor
RagLoaded(r) ==
  /\ rag[r].pc = "ragLoad"
  /\ \E ok \in BOOLEAN :
       IF ok
       THEN /\ ragInstance' = TRUE
            /\ RagSettle(r, [rag[r] EXCEPT !.pc = "ragEmbed", !.calls = @ + 1])
       ELSE /\ RagSettle(r, RagCaught(rag[r], ErrPipeline))
            /\ UNCHANGED ragInstance
  /\ UNCHANGED <<ragStore, ragLoads, ragStarted, chatVars, fireVars, chunkVars>>

\* cosineSimilarity (lines 84-92): no guard against a zero norm; the
\* extractor normalizes, so the norms are not zero
cosineSimilarity(a, b) ==
  [sq |-> (IF Dot(a, b) < 0 THEN -1 ELSE 1) * Dot(a, b) * Dot(a, b),
   den |-> Dot(a, a) * Dot(b, b)]

\* lines 114-120: the texts of the three most similar chunks
RagTopContext(items, q) ==
  LET sims == [i \in 1..Len(items) |->
                 [text |-> items[i].text,
                  score |-> cosineSimilarity(q, items[i].embedding)]]
      top == SliceFirst(SortByScoreDesc(sims), RAG_TOP_K)
  IN  [i \in 1..Len(top) |-> top[i].text]

\* The extractor settles.  In initializeVectorStore (lines 73-80) the store
\* is set and the handler goes on after its await; in the handler (lines
\* 111-134) the context is retrieved and the prompt is sent.
RagEmbedded(r) ==
  /\ rag[r].pc = "ragEmbed"
  /\ LET s == rag[r]
         n == IF s.phase = "init" THEN Len(s.chunks) ELSE 1
     IN  \E ans \in ExtractorAnswers(n) :
           IF ~ans.ok
           THEN /\ RagSettle(r, RagCaught(s, ErrExtractor))
                /\ UNCHANGED ragStore
           ELSE IF s.phase = "init"
           THEN /\ ragStore' = [set |-> TRUE,
                                items |-> [i \in 1..n |->
                                             [text |-> s.chunks[i],
                                              embedding |-> ans.vectors[i]]]]
                /\ RagSettle(r, [s EXCEPT !.pc = "ragReady", !.chunks = <<>>])
           ELSE /\ RagSettle(r, [s EXCEPT !.pc = "ragGenerate", !.calls = @ + 1,
                                           !.context =
                                             RagTopContext(ragStore.items, ans.vectors[1])])
                /\ UNCHANGED ragStore
  /\ UNCHANGED <<ragInstance, ragLoads, ragStarted, chatVars, fireVars, chunkVars>>

\* lines 107-110: initializeVectorStore() has returned; the body is parsed
\* and getInstance() is called
RagReady(r) ==
  /\ rag[r].pc = "ragReady"
  /\ LET s == rag[r]
         parsed == s.body.kind = "json"
     IN  /\ RagSettle(r, IF ~parsed THEN RagCaught(s, ErrJson)
                         ELSE RagGetInstance([s EXCEPT !.phase = "query",
                                                       !.message = BodyMessage(s.body)]))
         /\ ragLoads' = IF parsed /\ InstanceMissing THEN ragLoads + 1 ELSE ragLoads
  /\ UNCHANGED <<ragStore, ragInstance, ragStarted, chatVars, fireVars, chunkVars>>

\* line 143
RagExtractReply(parts) ==
  IF parts = <<>> \/ Head(parts) = <<>> THEN RagFallback ELSE Head(parts)

\* lines 136-148: the generation API answers
RagGenerated(r) ==
  /\ rag[r].pc = "ragGenerate"
  /\ \E ans \in GenAnswers(GenParts("free", rag[r].message)) :
       RagSettle(r, IF ~ans.ok THEN RagCaught(rag[r], ErrRagGenerate)
                    ELSE RagFinish(rag[r], ReplyResponse(RagExtractReply(ans.parts))))
  /\ UNCHANGED <<ragStore, ragInstance, ragLoads, ragStarted, chatVars, fireVars, chunkVars>>

StepRag(r) ==
  \/ RagInvoke(r)
  \/ RagPdfParsed(r)
  \/ RagSplitDone(r)
  \/ RagLoaded(r)
  \/ RagEmbedded(r)
  \/ RagReady(r)
  \/ RagGenerated(r)

InitRag ==
  /\ ragStore = NullStore
  /\ ragInstance = FALSE
  /\ ragLoads = 0
  /\ rag = [r \in Slots |-> RagIdle]
  /\ ragReturned = RagIdle
  /\ ragStarted = 0

\* =====================================================================
\* netlify/functions/firestore.js
\* =====================================================================
\* calls of saveHistory that can be in flight at once
NFireCalls == 2
\* calls of saveHistory started over a run of SpecFire
MaxFireCalls == 3

FireCalls == 1..NFireCalls
FireSessions == {"s1", "s2"}
FireMessages == {<<"h", "i">>, <<"y", "o">>}
FireReply == <<"o", "k">>

NoDoc == [exists |-> FALSE, messages |-> <<>>, version |-> 0]

FireIdle ==
  [pc |-> "idle", sessionId |-> NoSession, user |-> NoText, bot |-> NoText,
   exists |-> FALSE, readVersion |-> 0, now |-> 0]

\* lines 33-36 and 108-112: newEntry, its timestamp resolved to ts
NewEntry(c, ts) == [user |-> c.user, bot |-> c.bot, timestamp |-> ts]

\* FieldValue.arrayUnion(entry): the entry is added unless the array holds it
ArrayUnion(messages, entry) ==
  IF \E i \in 1..Len(messages) : messages[i] = entry THEN messages
  ELSE Append(messages, entry)

\* docRef.set({ messages: [newEntry] }) (lines 42-44, 118-120): the document
\* is replaced
SetDoc(doc, entry) ==
  [exists |-> TRUE, messages |-> <<entry>>, version |-> doc.version + 1]

\* docRef.update({ messages: arrayUnion(newEntry) }) (lines 49-51, 124-126)
UpdateDoc(doc, entry) ==
  [exists |-> TRUE, messages |-> ArrayUnion(doc.messages, entry),
   version |-> doc.version + 1]

\* saveHistory(sessionId, userMessage, botReply) is called: docRef.get()
\* (line 106) or transaction.get(docRef) (line 31) is awaited
FireCall(c) ==
  /\ LowestFree(fire, c)
  /\ fireStarted < MaxFireCalls
  /\ \E s \in FireSessions : \E m \in FireMessages :
       fire' = [fire EXCEPT ![c] =
                  [FireIdle EXCEPT !.pc = "get", !.sessionId = s, !.user = m,
                                   !.bot = FireReply]]
  /\ fireStarted' = fireStarted + 1
  /\ UNCHANGED <<fireVariant, fireDocs, fireClock, fireLog, chatVars, ragVars, chunkVars>>

\* The get settles: doc.exists is read (lines 38 and 115) and the write is
\* sent (get-then-write variant) or buffered and committed (transaction).
\* Timestamp.now() of line 41 is the clock at this moment.
FireGot(c) ==
  /\ fire[c].pc = "get"
  /\ LET doc == fireDocs[fire[c].sessionId]
     IN  fire' = [fire EXCEPT ![c].pc = "write", ![c].exists = doc.exists,
                              ![c].readVersion = doc.version, ![c].now = fireClock]
  /\ fireClock' = fireClock + 1
  /\ UNCHANGED <<fireVariant, fireDocs, fireLog, fireStarted, chatVars, ragVars, chunkVars>>

\* lines 38-52 and 115-127: set when the document read did not exist, update
\* with arrayUnion otherwise
WriteDoc(c, doc, ts) ==
  IF ~c.exists THEN SetDoc(doc, NewEntry(c, ts)) ELSE UpdateDoc(doc, NewEntry(c, ts))

\* Get-then-write variant (lines 102-128): the set or the update settles.
\* The SDK or the server may reject the write; saveHistory then rejects.
FirePlainWritten(c) ==
  /\ fireVariant = "getThenWrite"
  /\ fire[c].pc = "write"
  /\ \E ok \in BOOLEAN :
       IF ok
       THEN /\ fireDocs' = [fireDocs EXCEPT ![fire[c].sessionId] =
                              WriteDoc(fire[c], @, fireClock)]
            /\ fireLog' = [fireLog EXCEPT ![fire[c].sessionId] = Append(@, fire[c].user)]
       ELSE UNCHANGED <<fireDocs, fireLog>>
  /\ fire' = [fire EXCEPT ![c] = FireIdle]
  /\ fireClock' = fireClock + 1
  /\ UNCHANGED <<fireVariant, fireStarted, chatVars, ragVars, chunkVars>>

\* Transaction variant (lines 26-54): the commit settles.  It is applied
\* only when the document is as it was read; otherwise runTransaction runs
\* the update function again from transaction.get.
FireTxCommitted(c) ==
  /\ fireVariant = "transaction"
  /\ fire[c].pc = "write"
  /\ \E ok \in BOOLEAN :
       LET doc == fireDocs[fire[c].sessionId]
           ts == IF fire[c].exists THEN fireClock ELSE fire[c].now
       IN  IF ~ok
           THEN /\ fire' = [fire EXCEPT ![c] = FireIdle]
                /\ UNCHANGED <<fireDocs, fireLog>>
           ELSE IF doc.version # fire[c].readVersion
           THEN /\ fire' = [fire EXCEPT ![c].pc = "get"]
                /\ UNCHANGED <<fireDocs, fireLog>>
           ELSE /\ fireDocs' = [fireDocs EXCEPT ![fire[c].sessionId] =
                                  WriteDoc(fire[c], @, ts)]
                /\ fireLog' = [fireLog EXCEPT ![fire[c].sessionId] = Append(@, fire[c].user)]
                /\ fire' = [fire EXCEPT ![c] = FireIdle]
  /\ fireClock' = fireClock + 1
  /\ UNCHANGED <<fireVariant, fireStarted, chatVars, ragVars, chunkVars>>

StepFire(c) ==
  \/ FireCall(c)
  \/ FireGot(c)
  \/ FirePlainWritten(c)
  \/ FireTxCommitted(c)

InitFire ==
  /\ fireVariant = "transaction"
  /\ fireDocs = [s \in FireSessions |-> NoDoc]
  /\ fireClock = 1
  /\ fire = [c \in FireCalls |-> FireIdle]
  /\ fireLog = [s \in FireSessions |-> <<>>]
  /\ fireStarted = 0

\* ------------------------------------------------------ specifications
EmptyStore ==
  [ingested |-> FALSE, vectors |-> <<>>, history |-> [s \in Sessions |-> <<>>]]

\* lines 18-22: the module is loaded; nothing is ingested, no session exists
InitChat ==
  /\ corpus \in Corpora
  /\ apiKey \in BOOLEAN
  /\ store = EmptyStore
  /\ req = [r \in Slots |-> IdleSlot]
  /\ returned = IdleSlot
  /\ log = [s \in Sessions |-> <<>>]
  /\ started = 0

StepChat(r, mode) ==
  \/ Invoke(r, mode)
  \/ PdfParsed(r)
  \/ DocEmbedded(r, mode)
  \/ IngestReturned(r)
  \/ QueryEmbedded(r, mode)
  \/ Retrieved(r)
  \/ Generated(r, mode)

\* Requests of any clients, interleaved at their awaits.
Init == InitChat /\ InitRag /\ InitFire /\ InitChunk
Next == \E r \in Slots : StepChat(r, "free")
Spec == Init /\ [][Next]_vars

\* One client after the other, numbered messages, over a long run.
NextSeq == StepChat(1, "script")
SpecSeq == Init /\ [][NextSeq]_vars

\* The handler of unnamed/part_000 under interleaved requests.
NextRag == \E r \in Slots : StepRag(r)
SpecRag == Init /\ [][NextRag]_vars

\* Calls of saveHistory, interleaved at their awaits, for either variant of
\* firestore.js.
InitFireSpec ==
  /\ corpus = [exists |-> FALSE, files |-> <<>>]
  /\ apiKey = TRUE
  /\ store = EmptyStore
  /\ req = [r \in Slots |-> IdleSlot]
  /\ returned = IdleSlot
  /\ log = [s \in Sessions |-> <<>>]
  /\ started = 0
  /\ InitRag
  /\ fireVariant \in {"transaction", "getThenWrite"}
  /\ fireDocs = [s \in FireSessions |-> NoDoc]
  /\ fireClock = 1
  /\ fire = [c \in FireCalls |-> FireIdle]
  /\ fireLog = [s \in FireSessions |-> <<>>]
  /\ fireStarted = 0
  /\ InitChunk
NextFire == \E c \in FireCalls : StepFire(c)
SpecFire == InitFireSpec /\ [][NextFire]_vars

\* retrieveTopK on a store of up to MaxStore records: the state after the
\* ingestion of a directory of one-chunk text files, with one request back
\* from ensureIngested().
MaxStore == 6

RECURSIVE StoresOf(_)
\* the stores that hold one record for each of the first n files
StoresOf(n) ==
  IF n = 0 THEN {<<>>}
  ELSE {Append(vs, [embedding |-> v, text |-> <<Digit[n + 1]>>, source |-> Digit[n + 1]]) :
          vs \in StoresOf(n - 1), v \in EmbedVecs("topk") \ {<<>>}}

InitTopK ==
  /\ \E n \in 0..MaxStore :
       /\ corpus = [exists |-> TRUE,
                    files |-> [i \in 1..n |->
                                 File(Digit[i + 1], "txt", <<Digit[i + 1]>>, "none")]]
       /\ \E vs \in StoresOf(n) : store = [EmptyStore EXCEPT !.ingested = TRUE, !.vectors = vs]
  /\ apiKey = TRUE
  /\ req = [r \in Slots |->
              IF r = 1
              THEN [IdleSlot EXCEPT !.pc = "ingested", !.method = "POST",
                                    !.body = JsonBody(<<"h", "i">>, "s1"),
                                    !.message = <<"h", "i">>, !.sessionId = "s1",
                                    !.caller = "handler"]
              ELSE IdleSlot]
  /\ returned = IdleSlot
  /\ log = [s \in Sessions |-> <<>>]
  /\ started = 1
  /\ InitRag
  /\ InitFire
  /\ InitChunk
NextTopK ==
  \/ IngestReturned(1)
  \/ QueryEmbedded(1, "topk")
  \/ Retrieved(1)
  \/ Generated(1, "topk")
SpecTopK == InitTopK /\ [][NextTopK]_vars

\* Either handler deployed on its own: the first request decides which.
ChatDeployed(A) == ragStarted = 0 /\ A
RagDeployed(A) == started = 0 /\ A
NextHandlers ==
  \E r \in Slots :
    \/ ChatDeployed(Invoke(r, "free"))
    \/ ChatDeployed(PdfParsed(r))
    \/ ChatDeployed(DocEmbedded(r, "free"))
    \/ ChatDeployed(IngestReturned(r))
    \/ ChatDeployed(QueryEmbedded(r, "free"))
    \/ ChatDeployed(Retrieved(r))
    \/ ChatDeployed(Generated(r, "free"))
    \/ RagDeployed(RagInvoke(r))
    \/ RagDeployed(RagPdfParsed(r))
    \/ RagDeployed(RagSplitDone(r))
    \/ RagDeployed(RagLoaded(r))
    \/ RagDeployed(RagEmbedded(r))
    \/ RagDeployed(RagReady(r))
    \/ RagDeployed(RagGenerated(r))
SpecHandlers == Init /\ [][NextHandlers]_vars

\* Well-formed requests of the two sessions, interleaved at their awaits, in
\* a process without documents.
InitSessions == InitFireSpec /\ fireVariant = "transaction"
NextSessions ==
  \E r \in Slots :
    \/ Invoke(r, "sessions")
    \/ IngestReturned(r)
    \/ Retrieved(r)
    \/ Generated(r, "sessions")
SpecSessions == InitSessions /\ [][NextSessions]_vars

\* The same requests in a warm process in which session s1 already holds
\* the turns of n answered requests, for n at and next to MAX_TURNS / 2.
RECURSIVE AnsweredTurns(_, _, _)
AnsweredTurns(n, message, reply) ==
  IF n = 0 THEN <<>>
  ELSE UpdatedTurns(AnsweredTurns(n - 1, message, reply), message, reply)

InitWarm ==
  /\ corpus = [exists |-> FALSE, files |-> <<>>]
  /\ apiKey = TRUE
  /\ \E n \in {0, (MAX_TURNS \div 2) - 1, MAX_TURNS \div 2} :
       /\ store = [EmptyStore EXCEPT
                     !.ingested = n > 0,
                     !.history["s1"] = AnsweredTurns(n, Messages["s1"], <<"o", "k">>)]
       /\ log = [s \in Sessions |->
                   IF s = "s1" THEN AnsweredTurns(n, Messages["s1"], <<"o", "k">>)
                   ELSE <<>>]
  /\ req = [r \in Slots |-> IdleSlot]
  /\ returned = IdleSlot
  /\ started = 0
  /\ InitRag
  /\ InitFire
  /\ InitChunk
SpecWarm == InitWarm /\ [][NextSessions]_vars

\* chunkText(text, size, overlap) called once on a text of spaces and
\* letters, with any size and any overlap below it.
MaxChunkText == 5
MaxChunkSize == 4

RECURSIVE TextsUpTo(_)
TextsUpTo(n) ==
  IF n = 0 THEN {<<>>}
  ELSE LET shorter == TextsUpTo(n - 1)
       IN  shorter \cup {Append(t, c) : t \in {u \in shorter : Len(u) = n - 1},
                                        c \in {"a", " ", "\r"}}

InitChunkSpec ==
  /\ corpus = [exists |-> FALSE, files |-> <<>>]
  /\ apiKey = TRUE
  /\ store = EmptyStore
  /\ req = [r \in Slots |-> IdleSlot]
  /\ returned = IdleSlot
  /\ log = [s \in Sessions |-> <<>>]
  /\ started = 0
  /\ InitRag
  /\ InitFire
  /\ \E text \in TextsUpTo(MaxChunkText) : \E size \in 1..MaxChunkSize :
       \E overlap \in 0..(size - 1) :
         chunkArgs = [text |-> text, size |-> size, overlap |-> overlap]
  /\ chunkCalled = FALSE
  /\ chunkOut = <<>>

\* lines 29-38: the call returns
ChunkCall ==
  /\ ~chunkCalled
  /\ chunkCalled' = TRUE
  /\ chunkOut' = chunkText(chunkArgs.text, chunkArgs.size, chunkArgs.overlap)
  /\ UNCHANGED <<chunkArgs, chatVars, ragVars, fireVars>>

SpecChunk == InitChunkSpec /\ [][ChunkCall]_vars

\* Either history store on its own: the in-memory store of chatbot.js under
\* its handler, or firestore.js (either variant) in a process that serves no
\* chat request and holds no documents.
InitStores == Init \/ InitFireSpec
ChatStore(A) == fireStarted = 0 /\ A
FireStore(A) == started = 0 /\ ~corpus.exists /\ apiKey /\ A
NextStores ==
  \/ \E r \in Slots :
       \/ ChatStore(Invoke(r, "free"))
       \/ ChatStore(PdfParsed(r))
       \/ ChatStore(DocEmbedded(r, "free"))
       \/ ChatStore(IngestReturned(r))
       \/ ChatStore(QueryEmbedded(r, "free"))
       \/ ChatStore(Retrieved(r))
       \/ ChatStore(Generated(r, "free"))
  \/ \E c \in FireCalls :
       \/ FireStore(FireCall(c))
       \/ FireStore(FireGot(c))
       \/ FireStore(FirePlainWritten(c))
       \/ FireStore(FireTxCommitted(c))
SpecStores == InitStores /\ [][NextStores]_vars

\* =====================================================================
\* Claims
\* =====================================================================
\* a request is inside an ingestion pass of ensureIngested()
InPass(r) == req[r].pc \in {"embedDoc", "pdfParse"}

\* a request of chatbot.js that passed the checks of lines 155-165
Accepted(s) ==
  /\ s.method = "POST" /\ s.body.kind = "json"
  /\ s.message # NoText /\ s.sessionId # NoSession

\* s occurs n times in the sequence
Count(seq, x) == Cardinality({i \in 1..Len(seq) : seq[i] = x})

\* C1: at most one ingestion pass executes: no two requests are inside a
\* pass at once, and no (source, chunk) record is stored twice.
C1_AtMostOnePass ==
  /\ Cardinality({r \in Slots : InPass(r)}) <= 1
  /\ \A i, j \in 1..Len(store.vectors) :
       i # j => <<store.vectors[i].source, store.vectors[i].text>>
                  # <<store.vectors[j].source, store.vectors[j].text>>

\* C2: once a call of ensureIngested() has completed (store.ingested), with
\* one request after the other, no step changes store.vectors or
\* store.ingested, and a request that arrives makes no read and no API call
\* before it is back from ensureIngested() (or is rejected before the call).
C2_Idempotent ==
  [][store.ingested =>
       /\ store'.ingested /\ store'.vectors = store.vectors
       /\ started' # started =>
            \/ returned'.pc = "done" /\ returned'.calls = 0 /\ ~Accepted(returned')
            \/ \E r \in Slots : /\ req[r].pc = "idle" /\ req'[r].pc = "ingested"
                                /\ req'[r].calls = 0]_vars

\* C2 witness: a second request came back from ensureIngested() at once, on
\* a store that holds the vectors of the first pass
C2_Witness ==
  /\ started >= 2 /\ store.ingested /\ Len(store.vectors) > 0
  /\ req[1].pc = "ingested" /\ req[1].calls = 0

\* C3: when the requests of a session have completed, the stored history
\* holds the user and bot turns of every request answered 200 (below the
\* cap), also of two requests that both read the turns before either wrote.
C3_BothAppendsSurvive ==
  \A s \in Sessions :
    ((\A r \in Slots : req[r].pc = "idle" \/ req[r].sessionId # s)
       /\ Len(log[s]) <= MAX_TURNS)
    => /\ Len(store.history[s]) = Len(log[s])
       /\ \A i \in 1..Len(log[s]) :
            Count(store.history[s], log[s][i]) = Count(log[s], log[s][i])

\* C4: when the calls of saveHistory on a session have resolved, the
\* session's messages array holds the entry of every one of them, for either
\* variant.
C4_BothEntriesSaved ==
  \A s \in FireSessions :
    (\A c \in FireCalls : fire[c].pc = "idle" \/ fire[c].sessionId # s)
    => LET users == [i \in 1..Len(fireDocs[s].messages) |-> fireDocs[s].messages[i].user]
       IN  /\ Len(users) = Len(fireLog[s])
           /\ \A i \in 1..Len(fireLog[s]) :
                Count(users, fireLog[s][i]) = Count(fireLog[s], fireLog[s][i])

\* C5: with one request after the other, a session's stored turns are at
\* most MAX_TURNS, and are the last turns appended to it, in their order.
C5_Truncation ==
  \A s \in Sessions :
    LET h == store.history[s]
        n == Len(log[s])
    IN  /\ Len(h) <= MAX_TURNS
        /\ Len(h) = Min(n, MAX_TURNS)
        /\ \A i \in 1..Len(h) : h[i] = log[s][n - Len(h) + i]

\* C5 witness: more turns were appended to a session than the cap keeps
C5_Witness ==
  \E s \in Sessions : Len(log[s]) > MAX_TURNS /\ Len(store.history[s]) = MAX_TURNS

\* a POST whose JSON body has no message
NoMessage(s) == s.method = "POST" /\ s.body.kind = "json" /\ s.body.message = NoText

\* C6: a POST whose body has no message is answered 400 and makes no
\* external call, in either handler (the API key being configured).
C6_MissingMessage ==
  apiKey =>
    /\ NoMessage(returned) => (returned.resp.statusCode = 400 /\ returned.calls = 0)
    /\ \A r \in Slots : NoMessage(req[r]) => req[r].calls = 0
    /\ NoMessage(ragReturned) => (ragReturned.resp.statusCode = 400 /\ ragReturned.calls = 0)
    /\ \A r \in Slots : NoMessage(rag[r]) => rag[r].calls = 0

\* C7: a POST with a message and no sessionId is accepted: it is answered
\* 200 with the reply, unless a failure was raised while handling it.
C7_NoSessionAccepted ==
  (/\ returned.pc = "done" /\ apiKey /\ returned.method = "POST"
   /\ returned.body.kind = "json" /\ returned.body.message # NoText
   /\ returned.body.sessionId = NoSession)
  => (returned.resp.statusCode = 200 \/ returned.err # "")

\* C8: a request in whose handling a failure was raised is answered 500
\* with the handler's fixed body, which holds nothing of the failure.
C8_UniformFailure ==
  /\ returned.err # "" =>
       /\ returned.resp = Response(500, "Failed to process request.", NoText)
       /\ returned.resp.body # returned.err
  /\ ragReturned.err # "" =>
       /\ ragReturned.resp = Response(500, "Failed to process the request.", NoText)
       /\ ragReturned.resp.body # ragReturned.err

\* C8 witness: the generation API answered 503 and the request is answered
C8_Witness == returned.pc = "done" /\ returned.err = ErrGenerate

\* the stored record a result was made of
Unscored(t) == [embedding |-> t.embedding, text |-> t.text, source |-> t.source]

\* C9: what retrieveTopK returns holds min(n, k) results for a store of n
\* records; they are distinct stored records, in descending order of score,
\* and no record left out scores higher than one returned; on an empty store
\* no embedding call is made, so it cannot fail.
C9_TopK ==
  \A r \in Slots :
    /\ req[r].pc = "embedQuery" => Len(store.vectors) > 0
    /\ req[r].pc = "retrieved" =>
         LET top == req[r].top
             seen == req[r].seen
             in == {j \in 1..Len(seen) : \E i \in 1..Len(top) : Unscored(top[i]) = seen[j]}
         IN  /\ Len(top) = Min(Len(seen), TOP_K)
             /\ Len(top) <= Len(store.vectors)
             /\ \A i \in 1..Len(top) : \E j \in 1..Len(seen) : Unscored(top[i]) = seen[j]
             /\ \A i, j \in 1..Len(top) : i # j => Unscored(top[i]) # Unscored(top[j])
             /\ \A i, j \in 1..Len(top) :
                  i < j => ~ScoreLess(top[i].score, top[j].score)
             /\ \A j \in (1..Len(seen)) \ in : \A i \in 1..Len(top) :
                  ~ScoreLess(top[i].score, cosine(req[r].q, seen[j].embedding))

\* C9 witness: more than k records are stored and k results with different
\* scores came back
C9_Witness ==
  /\ req[1].pc = "retrieved" /\ Len(req[1].seen) > TOP_K /\ Len(req[1].top) = TOP_K
  /\ ScoreLess(req[1].top[TOP_K].score, req[1].top[1].score)

\* C10: with the document directory absent no request fails on it and the
\* store stays empty, in either handler; in chatbot.js a request that is
\* past ensureIngested() finds the store marked ingested.
C10_AbsentDirNoOp ==
  ~corpus.exists =>
    /\ store.vectors = <<>>
    /\ returned.err \notin {ErrRead, ErrPdf, ErrEmbedStatus, ErrEmbedEmpty}
    /\ \A r \in Slots : req[r].pc # "idle" => (store.ingested /\ ~InPass(r))
    /\ ragReturned.err \notin {ErrReaddir, ErrRead, ErrPdf}

\* the step is a save of a request answered 200 for session s, and it adds
\* the request's user and bot turn to what was stored (below the cap)
SavedTurns(s) ==
  /\ returned'.pc = "done" /\ returned'.sessionId = s
  /\ returned'.resp.statusCode = 200
  /\ store'.history[s] =
       SliceLast(store.history[s] \o <<Turn("user", returned'.message),
                                        Turn("bot", returned'.resp.reply)>>, MAX_TURNS)

\* the step is a call of saveHistory on session s that resolved, and it adds
\* the call's entry to the messages the document held
SavedEntry(s) ==
  \E c \in FireCalls :
    /\ fire[c].pc = "write" /\ fire[c].sessionId = s /\ fire'[c].pc = "idle"
    /\ fireLog'[s] = Append(fireLog[s], fire[c].user)
    /\ fireDocs'[s].exists
    /\ LET old == fireDocs[s].messages
           new == fireDocs'[s].messages
       IN  /\ Len(new) = Len(old) + 1
           /\ \A i \in 1..Len(old) : new[i] = old[i]
           /\ new[Len(new)].user = fire[c].user /\ new[Len(new)].bot = fire[c].bot

\* C11: a session's stored history changes only by a successful save, which
\* adds its turns to those stored (never by a request answered 400, 405 or
\* 500), and a session that holds turns never becomes empty or nonexistent;
\* for the in-memory store and for the Firestore document.
C11_SessionLifecycle ==
  [][\A s \in Sessions :
       /\ store'.history[s] # store.history[s] => SavedTurns(s)
       /\ store.history[s] # <<>> => store'.history[s] # <<>>
       /\ fireDocs'[s] # fireDocs[s] => SavedEntry(s)
       /\ fireDocs[s].exists => (fireDocs'[s].exists /\ fireDocs'[s].messages # <<>>)]_vars

\* C12: chunkText(text, size, overlap) with overlap < size returns exactly
\* one chunk for a non-blank text of length at most size.
C12_OneChunk ==
  (/\ chunkCalled
   /\ chunkArgs.overlap < chunkArgs.size
   /\ Trim(chunkArgs.text) # <<>>
   /\ Len(chunkArgs.text) <= chunkArgs.size)
  => Len(chunkOut) = 1

\* the calls of pipeline() that are pending
PendingLoads == {r \in Slots : rag[r].pc = "ragLoad"}

\* C13: the embedding model is loaded at most once: no two calls of
\* pipeline() are pending together, and none is pending once the instance
\* is stored.
C13_SingleLoad ==
  Cardinality(PendingLoads) + (IF ragInstance THEN 1 ELSE 0) <= 1

\* C14: the history section of the prompt a request sends holds the last
\* min(10, n) of the n turns stored for its session when it read them, in
\* stored order, each under its speaker, and is "(none)" exactly when n = 0.
C14_HistoryWindow ==
  \A r \in Slots :
    req[r].pc = "generate" =>
      LET turns == req[r].turns
          n == Len(turns)
          h == req[r].prompt.history
          k == Len(h.items)
      IN  /\ turns = store.history[req[r].sessionId]
          /\ k = Min(10, n)
          /\ \A i \in 1..k :
               /\ h.items[i].text = turns[n - k + i].text
               /\ h.items[i].speaker = (IF turns[n - k + i].role = "user" THEN "User" ELSE "Bot")
          /\ (h.placeholder = "(none)") <=> (n = 0)
          /\ (h.placeholder = "") <=> (n > 0)

\* C14 witness: a request read a history at the cap of 40 turns and its
\* prompt holds the last 10 of them
C14_Witness ==
  /\ req[1].pc = "generate" /\ Len(req[1].turns) = MAX_TURNS
  /\ Len(req[1].prompt.history.items) = 10
  /\ req[1].prompt.history.items[10].text = req[1].turns[MAX_TURNS].text
  /\ req[1].prompt.history.items[1].text # req[1].turns[1].text

\* the turn a line of the HISTORY section was made of
ItemTurn(item) == Turn(IF item.speaker = "User" THEN "user" ELSE "bot", item.text)

\* C15: sessions are isolated: the prompt built for a request holds its own
\* message and only turns that were appended under its own sessionId, and a
\* step changes the stored history of a session only when it is the return
\* of a request for that session.
C15_Isolation ==
  /\ [](\A r \in Slots :
          req[r].pc = "generate" =>
            /\ req[r].prompt.user = req[r].message
            /\ \A i \in 1..Len(req[r].prompt.history.items) :
                 \E j \in 1..Len(log[req[r].sessionId]) :
                   log[req[r].sessionId][j] = ItemTurn(req[r].prompt.history.items[i]))
  /\ [][\A b \in Sessions :
          store'.history[b] # store.history[b] =>
            (returned'.pc = "done" /\ returned'.sessionId = b)]_vars

\* C15 witness: a request for s1 has built its prompt from the stored turns
\* of s1 while s2 holds turns of its own
C15_Witness ==
  \E r \in Slots :
    /\ req[r].pc = "generate" /\ req[r].sessionId = "s1"
    /\ store.history["s2"] # <<>>
    /\ Len(req[r].prompt.history.items) = 2

\* C16: a request answered 400, 405 or 500 appends nothing: the step in
\* which it returns leaves every stored history as it was, and so does
\* every step that is not the return of a request answered 200.
C16_NoPartialHistory ==
  [][/\ (returned'.pc = "done" /\ returned'.resp.statusCode \in {400, 405, 500})
          => (store'.history = store.history /\ log' = log)
     /\ store'.history # store.history
          => (returned'.pc = "done" /\ returned'.resp.statusCode = 200)]_vars

\* C16 witness: the generation API failed for a request of a session that
\* holds turns, and the request is answered 500
C16_Witness ==
  /\ returned.pc = "done" /\ returned.resp.statusCode = 500
  /\ returned.err = ErrGenerate
  /\ store.history[returned.sessionId] # <<>>
  /\ store.history[returned.sessionId] = log[returned.sessionId]

\* C17: with one request after the other and documents that all read and
\* parse, so that a pass is only ever aborted by the embedding API,
\* store.vectors holds each (source, chunk) record at most once.
C17_NoDuplicateRecords ==
  (\A f \in 1..Len(corpus.files) : corpus.files[f].fault = "none") =>
    \A i, j \in 1..Len(store.vectors) :
      i # j => <<store.vectors[i].source, store.vectors[i].text>>
                 # <<store.vectors[j].source, store.vectors[j].text>>

\* the chunks ensureIngested() embeds for a file (lines 86-94)
ChunksOfFile(f) ==
  chunkText(IF f.ext = "pdf" THEN Trim(f.text) ELSE f.text, CHUNK_SIZE, CHUNK_OVERLAP)

\* vectors holds a record for every chunk of every supported document
Covers(vectors) ==
  \A i \in 1..Len(SupportedFiles(corpus)) :
    LET f == SupportedFiles(corpus)[i]
    IN  \A c \in 1..Len(ChunksOfFile(f)) :
          \E v \in 1..Len(vectors) :
            vectors[v].source = f.name /\ vectors[v].text = ChunksOfFile(f)[c]

\* C18: when store.ingested is set, store.vectors holds a record for every
\* chunk of every supported document; a request that is back from
\* ensureIngested() finds the flag set, and what its retrieval scores is
\* missing no chunk.
C18_IngestedIsComplete ==
  /\ store.ingested => Covers(store.vectors)
  /\ \A r \in Slots :
       /\ req[r].pc \in {"ingested", "embedQuery", "retrieved", "generate"} => store.ingested
       /\ req[r].pc = "retrieved" => Covers(req[r].seen)

\* C18 witness: a retrieval has scored the records of two documents in a
\* store that an aborted or a concurrent pass has written to as well
C18_Witness ==
  \E r \in Slots :
    /\ req[r].pc = "retrieved" /\ Len(req[r].seen) >= 3
    /\ \E i, j \in 1..Len(req[r].seen) : req[r].seen[i].source # req[r].seen[j].source

\* C19: every stored history has even length and alternates user, bot, ...
\* from a user turn, and each of its pairs is a user turn with the reply
\* that was appended with it.
C19_Alternation ==
  \A s \in Sessions :
    LET h == store.history[s]
    IN  /\ Len(h) % 2 = 0
        /\ \A i \in 1..Len(h) : h[i].role = (IF i % 2 = 1 THEN "user" ELSE "bot")
        /\ \A i \in 1..Len(h) :
             i % 2 = 1 =>
               \E j \in 1..Len(log[s]) :
                 j % 2 = 1 /\ log[s][j] = h[i] /\ log[s][j + 1] = h[i + 1]

\* C19 witness: a history was truncated to the cap while another request
\* of the session, which had read fewer turns, is still in flight
C19_Witness ==
  /\ Len(log["s1"]) > MAX_TURNS /\ Len(store.history["s1"]) = MAX_TURNS
  /\ \E r \in Slots :
       /\ req[r].pc = "generate" /\ req[r].sessionId = "s1"
       /\ Len(req[r].turns) < MAX_TURNS

====
